---- MODULE Spec2Model ----
(***************************************************************************)
(* Model of pipelines/bin/read_length_dist.py: a command-line tool that    *)
(* tallies, per gzip-compressed FASTQ input file, the number of reads of   *)
(* each length and writes a tab-separated report.                          *)
(*                                                                         *)
(* A text is a sequence of one-character strings.  A file is a record      *)
(*   [kind, data, ok]: kind "absent" (no such file), "gz" (a gzip stream   *)
(*   whose decompressed lines are data; ok = FALSE when the stream is cut  *)
(*   short after them), "text" (uncompressed lines, as the tool writes).   *)
(* A line of the report is the tuple of its tab-separated fields.          *)
(* The output path is taken to be writable.                                *)
(***************************************************************************)
EXTENDS Integers, Sequences, FiniteSets, TLC

VARIABLES argv,      \* sys.argv without the program name
          fs,        \* the file system: path -> file
          pc,        \* position of the interpreter in the script
          out_tsv,   \* line 25
          infiles,   \* line 26
          k,         \* 1-based position of f in infiles (line 30)
          i,         \* enumerate index inside count_lengths (line 16)
          counts,    \* the Counter of count_lengths, in insertion order
          items,     \* what is left of sorted(counts.items()) (line 32)
          buf,       \* lines written to out and not yet on disk
          log,       \* every out.write of this run, with the input position
          stdout,    \* what was printed
          status,    \* exit status of the process (-1 while running)
          opened,    \* paths opened for reading in this run
          created,   \* paths opened for writing in this run
          run,       \* number of the current invocation
          fs0,       \* the file system when the current invocation started
          fsPrev,    \* the file system when the previous invocation started
          outPrev    \* the output file left by the previous invocation

vars == <<argv, fs, pc, out_tsv, infiles, k, i, counts, items, buf, log,
          stdout, status, opened, created, run, fs0, fsPrev, outPrev>>

----------------------------------------------------------------------------
(* Bounds *)
MaxLines == 6     \* longest input file of the single-file inputs, in lines
MaxArgs == 3      \* most arguments after the program name
MaxRuns == 2      \* invocations in succession
BufLines == 2     \* lines the write buffer of out holds before it spills

Paths == {"o", "a", "b"}
Nl == "\n"

----------------------------------------------------------------------------
(* Files *)
Absent == [kind |-> "absent", data |-> <<>>, ok |-> TRUE]
GzFile(lines) == [kind |-> "gz", data |-> lines, ok |-> TRUE]
CutGzFile(lines) == [kind |-> "gz", data |-> lines, ok |-> FALSE]
TextFile(lines) == [kind |-> "text", data |-> lines, ok |-> TRUE]

(* the module docstring, printed by the help path *)
Doc == "usage"

Header == <<"length", "count", "file">>

(* f"{length}\t{count}\t{f}\n" *)
FormatRow(length, count, f) == <<ToString(length), ToString(count), f>>

(* str.strip(): whitespace is removed at both ends *)
IsSpace(c) == c \in {" ", "\t", Nl}

RECURSIVE lstrip(_)
lstrip(s) == IF s # <<>> /\ IsSpace(Head(s)) THEN lstrip(Tail(s)) ELSE s

RECURSIVE rstrip(_)
rstrip(s) ==
    IF s # <<>> /\ IsSpace(s[Len(s)]) THEN rstrip(SubSeq(s, 1, Len(s) - 1))
    ELSE s

strip_trailing(s) == rstrip(s)

strip(s) == lstrip(rstrip(s))

(* counts[key] += 1 on a Counter: a new key is inserted last with count 1 *)
Keys(c) == {c[n][1] : n \in 1..Len(c)}

Increment_append(c, key) == Append(c, <<key, 1>>)

Increment(c, key) ==
    IF key \in Keys(c)
    THEN [n \in 1..Len(c) |->
            IF c[n][1] = key THEN <<key, c[n][2] + 1>> ELSE c[n]]
    ELSE Append(c, <<key, 1>>)

CountLine_mod2(c, idx, line) ==
    IF idx % 2 = 1 THEN Increment(c, Len(strip(line))) ELSE c

(* line 17-18: the body of the loop of count_lengths *)
CountLine(c, idx, line) ==
    IF idx % 4 = 1 THEN Increment(c, Len(strip(line))) ELSE c

sorted_unsorted(c) == c

(* sorted(counts.items()): ascending by key (keys are distinct) *)
RECURSIVE sorted(_)
sorted(c) ==
    IF c = <<>> THEN <<>>
    ELSE LET m == CHOOSE n \in 1..Len(c) :
                      \A n2 \in 1..Len(c) : c[n][1] <= c[n2][1]
             rest == [n \in 1..(Len(c) - 1) |->
                        IF n < m THEN c[n] ELSE c[n + 1]]
         IN <<c[m]>> \o sorted(rest)

(* out.write(line): the line goes to the buffer of the file object, which
   spills to disk when it is full.  The buffer of the interpreter is counted
   in bytes; here it is counted in lines, BufLines of them. *)
Spills(b) == Len(b) + 1 > BufLines
BufAfter(b, line) == IF Spills(b) THEN <<>> ELSE Append(b, line)
DiskAfter(d, b, line) ==
    IF Spills(b) THEN [d EXCEPT !.data = @ \o Append(b, line)] ELSE d

Flushed_dropped(d, b) == d

(* leaving the with block: what is buffered reaches the disk *)
Flushed(d, b) == [d EXCEPT !.data = @ \o b]

OpenW_append(d) == TextFile(IF d.kind = "text" THEN d.data ELSE <<>>)

(* open(out_tsv, 'w'): the file is created, or truncated if it exists *)
OpenW(d) == TextFile(<<>>)

(* what gzip.open(fname, 'rt') yields for a file: the lines of a gzip
   stream; nothing for a file of zero bytes *)
Lines(d) == IF d.kind = "gz" THEN d.data ELSE <<>>

(* a non-empty file that is not a gzip stream raises BadGzipFile *)
NotGzip(d) == d.kind = "text" /\ d.data # <<>>

----------------------------------------------------------------------------
(* Inputs *)
SeqBodies == { <<"A">>, <<" ", "A">>, <<"A", " ">>, <<" ">>,
               <<"A", "A">>, <<>> }
OtherBodies == { <<"@", "r">>, <<" ", "+">> }

RECURSIVE FilesOfLen(_)
FilesOfLen(n) ==
    IF n = 0 THEN {<<>>}
    ELSE {Append(g, b \o <<Nl>>) :
            g \in FilesOfLen(n - 1),
            b \in IF (n - 1) % 4 = 1 THEN SeqBodies ELSE OtherBodies}

Record(body) == << <<"@", "r", Nl>>, body \o <<Nl>>, <<"+", Nl>>, <<"I", Nl>> >>

RECURSIVE ArgLists(_)
ArgLists(n) ==
    IF n = 0 THEN {<<>>}
    ELSE ArgLists(n - 1) \cup
         {Append(a, p) : a \in {x \in ArgLists(n - 1) : Len(x) = n - 1},
                         p \in Paths}

PoolA == { Absent,
           TextFile(<<>>),
           GzFile(Record(<<"A">>)),
           GzFile(Record(<<"A", "A">>) \o Record(<<"A">>)),
           CutGzFile(Record(<<"A">>)) }
PoolB == { Absent,
           GzFile(Record(<<"A">>) \o Record(<<"A">>)),
           GzFile(Record(<<"A", "A", "A">>) \o Record(<<"A">>)) }
PoolO == { Absent,
           TextFile(<<Header>>),
           TextFile(<<Header, FormatRow(1, 1, "a")>>) }

Fresh(a, d) ==
    /\ argv = a
    /\ fs = d
    /\ pc = "start"
    /\ out_tsv = ""
    /\ infiles = <<>>
    /\ k = 0
    /\ i = 0
    /\ counts = <<>>
    /\ items = <<>>
    /\ buf = <<>>
    /\ log = <<>>
    /\ stdout = ""
    /\ status = -1
    /\ opened = {}
    /\ created = {}
    /\ run = 1
    /\ fs0 = d
    /\ fsPrev = d
    /\ outPrev = Absent

(* one input file of any shape *)
InitOne ==
    \E n \in 0..MaxLines : \E lines \in FilesOfLen(n) :
    \E a \in { <<"o">>, <<"o", "a">>, <<"o", "a", "b">> } :
        Fresh(a, [p \in Paths |-> IF p = "a" THEN GzFile(lines) ELSE Absent])

(* any argument list over a few files *)
InitMany ==
    \E a \in ArgLists(MaxArgs) :
    \E da \in PoolA : \E db \in PoolB : \E do \in PoolO :
        Fresh(a, [p \in Paths |->
                    IF p = "a" THEN da ELSE IF p = "b" THEN db ELSE do])

Init == InitOne \/ InitMany

----------------------------------------------------------------------------
(* The script *)

(* line 21: len(sys.argv) < 3, sys.argv being the program name and argv *)
TooFewArgs_lt2 == Len(argv) + 1 < 2

TooFewArgs == Len(argv) + 1 < 3

(* line 21-23: too few arguments: print the docstring and sys.exit() *)
Help ==
    /\ pc = "start"
    /\ TooFewArgs
    /\ stdout' = Doc
    /\ status' = 0
    /\ pc' = "exit"
    /\ UNCHANGED <<argv, fs, out_tsv, infiles, k, i, counts, items, buf, log,
                   opened, created, run, fs0, fsPrev, outPrev>>

OpenOut_arg2 ==
    /\ pc = "start"
    /\ ~TooFewArgs
    /\ out_tsv' = argv[2]
    /\ infiles' = Tail(argv)
    /\ fs' = [fs EXCEPT ![argv[2]] = OpenW(@)]
    /\ created' = created \cup {argv[2]}
    /\ buf' = <<>>
    /\ pc' = "header"
    /\ UNCHANGED <<argv, k, i, counts, items, log, stdout, status, opened,
                   run, fs0, fsPrev, outPrev>>

(* line 25-28: bind the arguments and open the output for writing *)
OpenOut ==
    /\ pc = "start"
    /\ ~TooFewArgs
    /\ out_tsv' = argv[1]
    /\ infiles' = Tail(argv)
    /\ fs' = [fs EXCEPT ![argv[1]] = OpenW(@)]
    /\ created' = created \cup {argv[1]}
    /\ buf' = <<>>
    /\ pc' = "header"
    /\ UNCHANGED <<argv, k, i, counts, items, log, stdout, status, opened,
                   run, fs0, fsPrev, outPrev>>

(* line 29 *)
WriteHeader ==
    /\ pc = "header"
    /\ buf' = BufAfter(buf, Header)
    /\ fs' = [fs EXCEPT ![out_tsv] = DiskAfter(@, buf, Header)]
    /\ log' = Append(log, [line |-> Header, pos |-> 0])
    /\ pc' = "for"
    /\ UNCHANGED <<argv, out_tsv, infiles, k, i, counts, items, stdout,
                   status, opened, created, run, fs0, fsPrev, outPrev>>

ForNext_keep ==
    /\ pc = "for"
    /\ k < Len(infiles)
    /\ k' = k + 1
    /\ pc' = "gzopen"
    /\ UNCHANGED <<argv, fs, out_tsv, infiles, i, counts, items, buf, log,
                   stdout, status, opened, created, run, fs0, fsPrev, outPrev>>

(* line 30-31, 14: the next f of infiles; count_lengths(f) starts with an
   empty Counter *)
ForNext ==
    /\ pc = "for"
    /\ k < Len(infiles)
    /\ k' = k + 1
    /\ counts' = <<>>
    /\ pc' = "gzopen"
    /\ UNCHANGED <<argv, fs, out_tsv, infiles, i, items, buf, log, stdout,
                   status, opened, created, run, fs0, fsPrev, outPrev>>

Raise_lost ==
    /\ buf' = <<>>
    /\ status' = 1
    /\ pc' = "exit"
    /\ UNCHANGED <<argv, fs, out_tsv, infiles, k, i, counts, items, log,
                   stdout, opened, created, run, fs0, fsPrev, outPrev>>

(* an exception leaves the with block of line 28, which closes out, and
   ends the process with a traceback and status 1 *)
Raise ==
    /\ fs' = [fs EXCEPT ![out_tsv] = Flushed(@, buf)]
    /\ buf' = <<>>
    /\ status' = 1
    /\ pc' = "exit"
    /\ UNCHANGED <<argv, out_tsv, infiles, k, i, counts, items, log, stdout,
                   opened, created, run, fs0, fsPrev, outPrev>>

(* line 15: gzip.open(fname, 'rt') *)
GzOpen ==
    /\ pc = "gzopen"
    /\ fs[infiles[k]].kind # "absent"
    /\ opened' = opened \cup {infiles[k]}
    /\ i' = 0
    /\ pc' = "read"
    /\ UNCHANGED <<argv, fs, out_tsv, infiles, k, counts, items, buf, log,
                   stdout, status, created, run, fs0, fsPrev, outPrev>>

(* line 15: FileNotFoundError *)
GzOpenFail ==
    /\ pc = "gzopen"
    /\ fs[infiles[k]].kind = "absent"
    /\ Raise

(* line 16-18: one iteration of the loop over the lines *)
ReadLine ==
    /\ pc = "read"
    /\ ~NotGzip(fs[infiles[k]])
    /\ i < Len(Lines(fs[infiles[k]]))
    /\ counts' = CountLine(counts, i, Lines(fs[infiles[k]])[i + 1])
    /\ i' = i + 1
    /\ UNCHANGED <<argv, fs, pc, out_tsv, infiles, k, items, buf, log,
                   stdout, status, opened, created, run, fs0, fsPrev, outPrev>>

(* line 16: the read fails: BadGzipFile on a file that is not gzip,
   EOFError when the stream ends before its end-of-stream marker *)
ReadFail ==
    /\ pc = "read"
    /\ \/ NotGzip(fs[infiles[k]])
       \/ /\ i = Len(Lines(fs[infiles[k]]))
          /\ ~fs[infiles[k]].ok
    /\ Raise

(* line 19, 32: count_lengths returns; the items are sorted *)
Return ==
    /\ pc = "read"
    /\ ~NotGzip(fs[infiles[k]])
    /\ i = Len(Lines(fs[infiles[k]]))
    /\ fs[infiles[k]].ok
    /\ items' = sorted(counts)
    /\ pc' = "rows"
    /\ UNCHANGED <<argv, fs, out_tsv, infiles, k, i, counts, buf, log,
                   stdout, status, opened, created, run, fs0, fsPrev, outPrev>>

(* line 32-33: one row *)
WriteRow ==
    /\ pc = "rows"
    /\ items # <<>>
    /\ LET row == FormatRow(Head(items)[1], Head(items)[2], infiles[k])
       IN /\ buf' = BufAfter(buf, row)
          /\ fs' = [fs EXCEPT ![out_tsv] = DiskAfter(@, buf, row)]
          /\ log' = Append(log, [line |-> row, pos |-> k])
    /\ items' = Tail(items)
    /\ UNCHANGED <<argv, pc, out_tsv, infiles, k, i, counts, stdout, status,
                   opened, created, run, fs0, fsPrev, outPrev>>

(* line 32: the rows of f are exhausted *)
EndRows ==
    /\ pc = "rows"
    /\ items = <<>>
    /\ pc' = "for"
    /\ UNCHANGED <<argv, fs, out_tsv, infiles, k, i, counts, items, buf, log,
                   stdout, status, opened, created, run, fs0, fsPrev, outPrev>>

(* line 30, 28: infiles is exhausted; the with block closes out and the
   script ends *)
Close ==
    /\ pc = "for"
    /\ k = Len(infiles)
    /\ fs' = [fs EXCEPT ![out_tsv] = Flushed(@, buf)]
    /\ buf' = <<>>
    /\ status' = 0
    /\ pc' = "exit"
    /\ UNCHANGED <<argv, out_tsv, infiles, k, i, counts, items, log, stdout,
                   opened, created, run, fs0, fsPrev, outPrev>>

(* the tool is invoked again with the same arguments on the file system
   the previous invocation left *)
Rerun ==
    /\ pc = "exit"
    /\ run < MaxRuns
    /\ run' = run + 1
    /\ fsPrev' = fs0
    /\ fs0' = fs
    /\ outPrev' = IF argv = <<>> THEN Absent ELSE fs[argv[1]]
    /\ pc' = "start"
    /\ out_tsv' = ""
    /\ infiles' = <<>>
    /\ k' = 0
    /\ i' = 0
    /\ counts' = <<>>
    /\ items' = <<>>
    /\ buf' = <<>>
    /\ log' = <<>>
    /\ stdout' = ""
    /\ status' = -1
    /\ opened' = {}
    /\ created' = {}
    /\ UNCHANGED <<argv, fs>>

Next ==
    \/ Help
    \/ OpenOut
    \/ WriteHeader
    \/ ForNext
    \/ GzOpen
    \/ GzOpenFail
    \/ ReadLine
    \/ ReadFail
    \/ Return
    \/ WriteRow
    \/ EndRows
    \/ Close
    \/ Rerun

Spec == Init /\ [][Next]_vars

----------------------------------------------------------------------------
(* Vocabulary of the properties *)
HeaderLine == <<"length", "count", "file">>
Numbers == 0..20
ParseInt(s) == CHOOSE n \in Numbers : ToString(n) = s
Range(s) == {s[n] : n \in DOMAIN s}
MaxOf(S) == CHOOSE x \in S : \A y \in S : y <= x
MinOf(S) == CHOOSE x \in S : \A y \in S : x <= y

(* positions of the characters of s that are not whitespace *)
NonSpace(s) == {n \in 1..Len(s) : ~IsSpace(s[n])}
(* length of s without the whitespace at its two ends *)
CoreLen(s) == IF NonSpace(s) = {} THEN 0
              ELSE MaxOf(NonSpace(s)) - MinOf(NonSpace(s)) + 1
(* length of s without the whitespace at its end *)
TrailLen(s) == IF NonSpace(s) = {} THEN 0 ELSE MaxOf(NonSpace(s))

(* 1-based positions of the sequence lines: 0-based index i with i % 4 = 1 *)
SeqIdx(lines) == {n \in 1..Len(lines) : (n - 1) % 4 = 1}
NumSeq(lines, L) ==
    Cardinality({n \in SeqIdx(lines) : CoreLen(lines[n]) = L})
ExpectedPairs(lines) ==
    {<<CoreLen(lines[n]), NumSeq(lines, CoreLen(lines[n]))>> :
        n \in SeqIdx(lines)}

RECURSIVE SumCounts(_)
SumCounts(c) == IF c = <<>> THEN 0 ELSE Head(c)[2] + SumCounts(Tail(c))
CountOf(c, key) ==
    SumCounts(SelectSeq(c, LAMBDA e : e[1] = key))

(* a file gzip cannot open or read to its end: missing, not empty and not
   gzip, or cut short *)
Unreadable(d) ==
    \/ d.kind = "absent"
    \/ d.kind = "text" /\ d.data # <<>>
    \/ ~d.ok

(* the invocation got past the argument check and has ended *)
Ended == pc = "exit" /\ Len(argv) >= 2
Out == fs[argv[1]].data
InPaths == Range(Tail(argv))
DataRows(p) == SelectSeq(Out, LAMBDA r : r # HeaderLine /\ r[3] = p)
RowPairs(rows) == {<<ParseInt(r[1]), ParseInt(r[2])>> : r \in Range(rows)}
LogLines(j) ==
    LET es == SelectSeq(log, LAMBDA e : e.pos = j)
    IN [n \in 1..Len(es) |-> es[n].line]
AllLogLines == [n \in 1..Len(log) |-> log[n].line]
StrictlyAsc(rows) ==
    \A x \in 1..(Len(rows) - 1) :
        ParseInt(rows[x][1]) < ParseInt(rows[x + 1][1])
(* input positions whose rows the invocation has finished writing *)
Done == IF status = 0 THEN 1..Len(infiles) ELSE 1..(k - 1)
(* the line count_lengths has in hand *)
CurLines == Lines(fs[infiles[k]])
SeqStep == pc = "read" /\ i' = i + 1 /\ i % 4 = 1
OtherStep == pc = "read" /\ i' = i + 1 /\ i % 4 # 1

----------------------------------------------------------------------------
(* C1: when an invocation has ended, for every input file whose rows were
   written (and that is not the output path itself), the rows of the output
   file with that file in the file column are exactly the pairs (L, n) with
   L the stripped length of some sequence line of the file and n the number
   of its sequence lines of stripped length L. *)
C1_Rows ==
    Ended =>
        \A j \in Done :
            infiles[j] # out_tsv =>
                RowPairs(DataRows(infiles[j])) =
                    ExpectedPairs(Lines(fs0[infiles[j]]))

C1_Witness ==
    /\ Ended
    /\ status = 0
    /\ infiles = <<"a">>
    /\ Len(Lines(fs0["a"])) = 6
    /\ Out = <<HeaderLine, <<"1", "2", "a">> >>

(* C2: while count_lengths reads a file and when it has returned, the sum
   of the counts of its counter is the number of line indices read so far
   that are 1 modulo 4 (all indices of the file once it has returned), and
   a step over a line at another index leaves the counter as it was. *)
C2_Conservation ==
    /\ [](pc \in {"read", "rows"} =>
            SumCounts(counts) = Cardinality({n \in 0..(i - 1) : n % 4 = 1}))
    /\ [](pc = "rows" => i = Len(CurLines))
    /\ [][OtherStep => counts' = counts]_vars

C2_Witness ==
    /\ pc = "rows"
    /\ Len(CurLines) = 6
    /\ SumCounts(counts) = 2
    /\ Len(counts) = 2

(* C3 as stated: for every path of the input list, the rows of the output
   with that path in the file column are in strictly ascending order of
   length. *)
C3_Original ==
    Ended => \A p \in InPaths : StrictlyAsc(DataRows(p))

(* C3 amended: the rows written for each position of the input list are in
   strictly ascending order of length, so for a path that is in the list
   once the rows with that path in the file column are strictly
   ascending. *)
C3_Ordering ==
    Ended =>
        /\ \A j \in 1..Len(infiles) : StrictlyAsc(LogLines(j))
        /\ \A p \in InPaths :
              Cardinality({j \in 1..Len(infiles) : infiles[j] = p}) = 1
                  => StrictlyAsc(DataRows(p))

C3_Witness ==
    /\ Ended
    /\ status = 0
    /\ infiles = <<"a", "b">>
    /\ DataRows("a") = << <<"1", "1", "a">>, <<"2", "1", "a">> >>
    /\ Len(DataRows("b")) = 2

(* C4: every row is written for the input position the loop is at, so the
   positions of the rows never decrease and each row names the file at its
   position; the counter is empty when count_lengths opens a file; and the
   rows of a position carry, for each length of that file, one row with
   that file's own count. *)
C4_FileOrder ==
    /\ \A x, y \in DOMAIN log : x < y => log[x].pos <= log[y].pos
    /\ \A x \in DOMAIN log :
          log[x].pos > 0 => log[x].line[3] = infiles[log[x].pos]
    /\ pc = "gzopen" => counts = <<>>
    /\ Ended =>
          /\ Out = AllLogLines
          /\ \A j \in Done :
                infiles[j] # out_tsv =>
                    /\ RowPairs(LogLines(j)) =
                           ExpectedPairs(Lines(fs0[infiles[j]]))
                    /\ Len(LogLines(j)) =
                           Cardinality(ExpectedPairs(Lines(fs0[infiles[j]])))

C4_Witness ==
    /\ Ended
    /\ status = 0
    /\ infiles = <<"a", "b">>
    /\ Out = <<HeaderLine, <<"1", "1", "a">>, <<"1", "2", "b">> >>

(* C5: when an invocation with an output path and at least one input path
   has ended, the first line of the output file is the header, no other
   line is the header, and the header is the whole file when every input
   had zero lines. *)
C5_Header ==
    Ended =>
        /\ Out # <<>>
        /\ Out[1] = HeaderLine
        /\ \A n \in 2..Len(Out) : Out[n] # HeaderLine
        /\ (status = 0 /\ \A p \in InPaths : Lines(fs0[p]) = <<>>)
              => Out = <<HeaderLine>>

C5_Witness ==
    /\ Ended
    /\ status = 0
    /\ infiles = <<"a">>
    /\ fs0["a"] = GzFile(<<>>)
    /\ Out = <<HeaderLine>>

(* C6: with fewer than three arguments (program name included) the
   invocation prints the usage text and exits with status 0, having opened
   no file for reading or writing and left the file system as it was; with
   three or more it never prints the usage text. *)
C6_Help ==
    /\ (pc = "exit" /\ Len(argv) < 2) =>
          /\ stdout = "usage"
          /\ status = 0
          /\ opened = {}
          /\ created = {}
          /\ fs = fs0
    /\ Len(argv) >= 2 => stdout = ""
    /\ Ended => created # {}

C6_Witness ==
    /\ pc = "exit"
    /\ argv = <<"o">>
    /\ stdout = "usage"
    /\ fs["o"] = TextFile(<<HeaderLine, <<"1", "1", "a">> >>)

(* C7: when a second invocation with the same arguments has ended and the
   input files were the same at the start of both invocations, the output
   file equals the one the first invocation left. *)
C7_Idempotent ==
    (Ended /\ run >= 2 /\ \A p \in InPaths : fs0[p] = fsPrev[p])
        => fs[argv[1]] = outPrev

C7_Witness ==
    /\ Ended
    /\ run = 2
    /\ status = 0
    /\ argv = <<"o", "a", "b">>
    /\ fsPrev["o"] = TextFile(<<HeaderLine, <<"1", "1", "a">> >>)
    /\ Len(Out) = 4
    /\ fs["o"] = outPrev

(* C8 as stated: an invocation with an output path and input paths writes
   the output path and no other file, and every input file is afterwards
   what it was before. *)
C8_Original ==
    Ended =>
        /\ created = {argv[1]}
        /\ \A p \in InPaths : fs[p] = fs0[p]

(* C8 amended: an invocation with an output path and at least one input
   path opens the output path and no other file for writing, and every
   file other than the output path, every input file among them, is at all
   times what it was before. *)
C8_Frame ==
    /\ Ended => created = {argv[1]}
    /\ Len(argv) >= 2 =>
          /\ created \subseteq {argv[1]}
          /\ \A p \in Paths \ {argv[1]} : fs[p] = fs0[p]

C8_Witness ==
    /\ Ended
    /\ status = 0
    /\ created = {"o"}
    /\ opened = {"a", "b"}
    /\ fs["a"] = fs0["a"]
    /\ fs["b"] = fs0["b"]
    /\ fs["o"] # fs0["o"]

(* C9 as stated: the key incremented for a sequence line is the length of
   the line without its trailing whitespace. *)
C9_Original ==
    [][SeqStep =>
          CountOf(counts', TrailLen(CurLines[i + 1])) =
              CountOf(counts, TrailLen(CurLines[i + 1])) + 1]_vars

(* C9 amended: the key incremented for a sequence line is the length of
   the line without the whitespace at both of its ends; no other key
   changes. *)
C9_Key ==
    [][SeqStep =>
          \A L \in Numbers :
              CountOf(counts', L) =
                  CountOf(counts, L)
                      + (IF L = CoreLen(CurLines[i + 1]) THEN 1 ELSE 0)]_vars

C9_Witness ==
    /\ pc = "read"
    /\ i = 2
    /\ CurLines[2] = <<" ", "A", Nl>>
    /\ counts = << <<1, 1>> >>

(* C10: the header is written before any input file is opened; no row of
   the file count_lengths is reading has been written; an invocation ends
   with status 1 exactly when some input cannot be opened or read, and then
   the output file holds the header and the rows of the positions before
   the failing one, each complete, and nothing else. *)
C10_Partial ==
    /\ pc \in {"gzopen", "read", "rows"} =>
          /\ out_tsv \in created
          /\ log # <<>>
          /\ log[1].line = HeaderLine
    /\ (pc = "gzopen" /\ k = 1) => opened = {} /\ Len(log) = 1
    /\ pc \in {"gzopen", "read"} => \A x \in DOMAIN log : log[x].pos < k
    /\ (Ended /\ out_tsv \notin InPaths) =>
          (status = 1 <=>
              \E p \in InPaths : Unreadable(fs0[p]))
    /\ (Ended /\ status = 1) =>
          /\ Out = AllLogLines
          /\ Out[1] = HeaderLine
          /\ \A x \in DOMAIN log : log[x].pos < k
          /\ Unreadable(fs[infiles[k]])
          /\ \A j \in 1..(k - 1) :
                infiles[j] # out_tsv =>
                    /\ StrictlyAsc(LogLines(j))
                    /\ RowPairs(LogLines(j)) =
                           ExpectedPairs(Lines(fs0[infiles[j]]))

C10_Witness ==
    /\ Ended
    /\ status = 1
    /\ k = 2
    /\ infiles = <<"b", "a">>
    /\ fs0["a"] = CutGzFile(Record(<<"A">>))
    /\ Len(Out) = 3

====
